---- MODULE Spec2Model ----
(***************************************************************************)
(* Openepo reference implementation (typescript/lib): one Receiver and the *)
(* Transmitters attached to one public and one private SimpleBus.          *)
(*                                                                         *)
(* Bus delivery is synchronous (SimpleBus.send calls every subscriber      *)
(* before it returns), so one step of the model is one host call, one      *)
(* scheduler callback or one frame put on the public bus by some other     *)
(* station, together with every handler that runs nested inside it.        *)
(*                                                                         *)
(* An optional field (x?: T) is the empty sequence when undefined and the  *)
(* one-element sequence <<v>> when it holds v.                             *)
(***************************************************************************)
EXTENDS Integers, Sequences, FiniteSets, TLC

\* Largest sequence number a transmitter reaches and a frame carries.
MaxSeq == 2

\* The transmitters a host can construct.
TxIds == {"t1", "t2"}

\* Values PRNG.getRandomBytes yields for session ids and session keys.
SessionIds == {"s1", "s2"}
Nonces == {"n1", "n2"}
Keys == {"k1", "k2"}

\* enum ProtectionAlgorithmType
AEAD_AES_128_OCB_TAGLEN128 == 20
AEAD_AES_128_OCB_TAGLEN64 == 22
ProtectionAlgorithmType == {AEAD_AES_128_OCB_TAGLEN128, AEAD_AES_128_OCB_TAGLEN64}

\* enum InterfaceType
UNKNOWN == 0
BUTTON_ACT == 1
InterfaceType == {UNKNOWN, BUTTON_ACT}

\* ReceiverConfig.protectionAlgorithms, as the list of algorithm types the
\* configured constructors build; the first is the default list.
DEFAULT_PROTECTION_ALGORITHMS == <<AEAD_AES_128_OCB_TAGLEN64>>
ProtectionConfigs ==
  { DEFAULT_PROTECTION_ALGORITHMS,
    <<AEAD_AES_128_OCB_TAGLEN128, AEAD_AES_128_OCB_TAGLEN64>> }

VARIABLES
  rx,         \* the Receiver's fields
  tx,         \* the Transmitters' fields, by transmitter
  cfg,        \* the Receiver's configuration (protectionAlgorithms) and the
              \* transmitters constructed, in the order they subscribed to the
              \* private bus (transmitters)
  helloSeen,  \* history: the transmitter handled a HELLO while in PAIRING
  nonces,     \* history: sender, key, sequence number and nonce of the frames
              \* sent on the public bus, where the nonces are followed
  old         \* the fields of the Receiver that a factory reset replaced and
              \* nothing closed; None while there is no such Receiver

vars == <<rx, tx, cfg, helloSeen, nonces, old>>

Transmitters == {cfg.transmitters[i] : i \in 1..Len(cfg.transmitters)}

None == <<>>
Some(v) == <<v>>

----------------------------------------------------------------------------
(* protocol.ts: frames and their protection                                *)

\* A public frame before protection. protectionAlgorithmType is set on BIND
\* and interface on ACT; they are 0 where the frame type has no such field.
Frame(type, sessionId, pat, seqNo, iface) ==
  [ unencrypted |-> [ header |-> [type |-> type, sessionId |-> sessionId],
                      protectionAlgorithmType |-> pat ],
    encrypted   |-> [ header |-> [seqNo |-> seqNo], interface |-> iface ] ]

protectFrame(algo, frame) ==
  [ unencrypted |-> frame.unencrypted,
    encrypted   |-> [algo |-> algo, protected |-> frame.encrypted] ]

\* deprotectFrame without the comparison of the algorithm and key.
deprotectFrame_AnyKey(algo, frame) ==
  Some([unencrypted |-> frame.unencrypted, encrypted |-> frame.encrypted.protected])

\* deprotectFrame that compares the algorithm type and not the session key.
deprotectFrame_TypeOnly(algo, frame) ==
  IF frame.encrypted.algo.type # algo.type
    THEN None
    ELSE Some([ unencrypted |-> frame.unencrypted,
                encrypted   |-> frame.encrypted.protected ])

\* null is None
deprotectFrame(algo, frame) ==
  IF frame.encrypted.algo # algo
    THEN None
    ELSE Some([ unencrypted |-> frame.unencrypted,
                encrypted   |-> frame.encrypted.protected ])

HelloFrame(sessionId, algos) ==
  [ unencrypted |-> [ header |-> [type |-> "HELLO", sessionId |-> sessionId],
                      protectionAlgorithms |-> algos,
                      supportedInterfaces |-> <<BUTTON_ACT>> ] ]

\* a HELLO of a Receiver configured with the supportedInterfaces ifaces
HelloFrameFrom(sessionId, algos, ifaces) ==
  [ unencrypted |-> [ header |-> [type |-> "HELLO", sessionId |-> sessionId],
                      protectionAlgorithms |-> algos,
                      supportedInterfaces |-> ifaces ] ]

BoundFrame(sessionId) ==
  [ unencrypted |-> [ header |-> [type |-> "BOUND", sessionId |-> sessionId] ] ]

Algos == [type : ProtectionAlgorithmType, sessionKey : Keys]

\* Every frame a station can put on the public bus.
PublicFrames ==
  { protectFrame(a, Frame("BIND", s, p, n, 0)) :
      a \in Algos, s \in SessionIds, p \in ProtectionAlgorithmType, n \in 1..MaxSeq }
  \cup
  { protectFrame(a, Frame(ty, s, 0, n, 0)) :
      a \in Algos, s \in SessionIds, ty \in {"UNBIND", "CONFIGURE"}, n \in 1..MaxSeq }
  \cup
  { protectFrame(a, Frame("ACT", s, 0, n, i)) :
      a \in Algos, s \in SessionIds, n \in 1..MaxSeq, i \in InterfaceType }

----------------------------------------------------------------------------
(* The state a handler works on: the component fields and the events so far *)

Emit(w, e) == [w EXCEPT !.ev = Append(@, e)]

Threw(w) == w.ev # <<>> /\ w.ev[Len(w.ev)].k = "throw"

RECURSIVE PrivateSend(_, _, _)

----------------------------------------------------------------------------
(* receiver.ts *)

\* Rearm without the cancelling of the pending timeout.
Rearm_NoCancel(w, who, pending, idleTimeoutMs) ==
  Emit(w, [k |-> "setTimeout", who |-> who, ms |-> idleTimeoutMs[1]])

\* scheduler.setTimeout and the cancel function it returns, as setState uses
\* them: the pending timeout is cancelled and a new one is armed
Rearm(w, who, pending, idleTimeoutMs) ==
  LET w1 == IF pending # None THEN Emit(w, [k |-> "clearTimeout", who |-> who]) ELSE w
  IN  Emit(w1, [k |-> "setTimeout", who |-> who, ms |-> idleTimeoutMs[1]])

\* RxSetState without the cancelling of pairingInterval.
RxSetState_KeepsInterval(w, state, idleTimeoutMs) ==
  LET notify == w.rx.state # state
      w0 == IF idleTimeoutMs # None
              THEN Rearm(w, "rx", w.rx.stateTimeout, idleTimeoutMs) ELSE w
      w1 == [w0 EXCEPT !.rx.state = state,
                       !.rx.stateTimeout = IF idleTimeoutMs # None
                                             THEN idleTimeoutMs ELSE @]
  IN  IF notify THEN Emit(w1, [k |-> "rx.stateChanged", v |-> state]) ELSE w1

RxSetState(w, state, idleTimeoutMs) ==
  LET notify == w.rx.state # state
      w0 == IF idleTimeoutMs # None
              THEN Rearm(w, "rx", w.rx.stateTimeout, idleTimeoutMs) ELSE w
      r1 == [w0.rx EXCEPT !.state = state,
                          !.stateTimeout = IF idleTimeoutMs # None
                                             THEN idleTimeoutMs ELSE @]
      r2 == IF state # "PAIRING" THEN [r1 EXCEPT !.pairingInterval = None] ELSE r1
      w1 == [w0 EXCEPT !.rx = r2]
  IN  IF notify THEN Emit(w1, [k |-> "rx.stateChanged", v |-> state]) ELSE w1

RxSend(w, sessionId, type) ==
  PrivateSend(w, "rx", BoundFrame(sessionId))

SessionsSet(sessions, id, rec) ==
  [i \in DOMAIN sessions \cup {id} |-> IF i = id THEN rec ELSE sessions[i]]

SessionsDelete(sessions, id) ==
  [i \in DOMAIN sessions \ {id} |-> sessions[i]]

\* RxOnBind without the check of the state: a BIND is honoured in any state.
RxOnBind_AnyState(w, pmsg) ==
  LET cands == IF w.rx.newProtections = None THEN <<>>
               ELSE SelectSeq(w.rx.newProtections[1],
                      LAMBDA algo : algo.type = pmsg.unencrypted.protectionAlgorithmType)
  IN  IF cands = <<>> THEN w
      ELSE LET protection == cands[1]
               msg == deprotectFrame(protection, pmsg)
           IN  IF msg = None THEN w
               ELSE IF Some(msg[1].unencrypted.header.sessionId) = w.rx.newSessionId
                 THEN LET sessionId == msg[1].unencrypted.header.sessionId
                          w1 == [w EXCEPT !.rx.sessions =
                                   SessionsSet(@, sessionId,
                                     [ protection |-> protection,
                                       prevSeqNo |-> msg[1].encrypted.header.seqNo ])]
                          w2 == RxSend(w1, sessionId, "BOUND")
                          w3 == [w2 EXCEPT !.rx.newSessionId = None,
                                           !.rx.newProtections = None]
                      IN  RxSetState(w3, "CONFIGURING", Some(30000))
                 ELSE w

\* RxOnBind without the comparison with newSessionId.
RxOnBind_AnySession(w, pmsg) ==
  LET cands == IF w.rx.newProtections = None THEN <<>>
               ELSE SelectSeq(w.rx.newProtections[1],
                      LAMBDA algo : algo.type = pmsg.unencrypted.protectionAlgorithmType)
  IN  IF cands = <<>> THEN w
      ELSE LET protection == cands[1]
               msg == deprotectFrame(protection, pmsg)
           IN  IF msg = None THEN w
               ELSE IF w.rx.state = "PAIRING"
                 THEN LET sessionId == msg[1].unencrypted.header.sessionId
                          w1 == [w EXCEPT !.rx.sessions =
                                   SessionsSet(@, sessionId,
                                     [ protection |-> protection,
                                       prevSeqNo |-> msg[1].encrypted.header.seqNo ])]
                          w2 == RxSend(w1, sessionId, "BOUND")
                          w3 == [w2 EXCEPT !.rx.newSessionId = None,
                                           !.rx.newProtections = None]
                      IN  RxSetState(w3, "CONFIGURING", Some(30000))
                 ELSE w

\* the BIND case of onPublicMsg
RxOnBind(w, pmsg) ==
  LET cands == IF w.rx.newProtections = None THEN <<>>
               ELSE SelectSeq(w.rx.newProtections[1],
                      LAMBDA algo : algo.type = pmsg.unencrypted.protectionAlgorithmType)
  IN  IF cands = <<>> THEN w
      ELSE LET protection == cands[1]
               msg == deprotectFrame(protection, pmsg)
           IN  IF msg = None THEN w
               ELSE IF w.rx.state = "PAIRING"
                       /\ Some(msg[1].unencrypted.header.sessionId) = w.rx.newSessionId
                 THEN LET sessionId == msg[1].unencrypted.header.sessionId
                          w1 == [w EXCEPT !.rx.sessions =
                                   SessionsSet(@, sessionId,
                                     [ protection |-> protection,
                                       prevSeqNo |-> msg[1].encrypted.header.seqNo ])]
                          w2 == RxSend(w1, sessionId, "BOUND")
                          w3 == [w2 EXCEPT !.rx.newSessionId = None,
                                           !.rx.newProtections = None]
                      IN  RxSetState(w3, "CONFIGURING", Some(30000))
                 ELSE w

\* RxOnUnbind with sessions.clear() for sessions.delete(id).
RxOnUnbind_DeletesAll(w, msg) ==
  IF w.rx.state = "UNPAIRING"
    THEN RxSetState([w EXCEPT !.rx.sessions = [id \in {} |-> 0]], "IDLE", None)
    ELSE w

\* the UNBIND case cancelling the timeout of the UNPAIRING window it ends.
RxOnUnbind_CancelsTimeout(w, msg) ==
  IF w.rx.state = "UNPAIRING"
    THEN RxSetState(Emit([w EXCEPT !.rx.sessions =
                            SessionsDelete(@, msg.unencrypted.header.sessionId),
                          !.rx.stateTimeout = None],
                         [k |-> "clearTimeout", who |-> "rx"]),
                    "IDLE", None)
    ELSE w

\* the UNBIND case
RxOnUnbind(w, msg) ==
  IF w.rx.state = "UNPAIRING"
    THEN RxSetState([w EXCEPT !.rx.sessions =
                       SessionsDelete(@, msg.unencrypted.header.sessionId)],
                    "IDLE", None)
    ELSE w

\* the CONFIGURE case honoured in CONFIGURING as well, where it re-arms.
RxOnConfigure_AlsoConfiguring(w, msg) ==
  IF w.rx.state = "IDLE" \/ w.rx.state = "CONFIGURING"
    THEN RxSetState(w, "CONFIGURING", Some(30000))
    ELSE w

\* the CONFIGURE case
RxOnConfigure(w, msg) ==
  IF w.rx.state = "IDLE"
    THEN RxSetState(w, "CONFIGURING", Some(30000))
    ELSE w

\* RxOnAct with <= for <: a sequence number equal to the stored one is accepted.
RxOnAct_AcceptsEqual(w, session, msg) ==
  IF w.rx.state = "IDLE" \/ w.rx.state = "CONFIGURING"
    THEN LET w1 == RxSetState(w, "CONFIGURING", Some(10000))
         IN  IF w1.rx.sessions[session].prevSeqNo <= msg.encrypted.header.seqNo
               THEN Emit([w1 EXCEPT !.rx.sessions[session].prevSeqNo =
                                      msg.encrypted.header.seqNo],
                         [k |-> "rx.act", interface |-> msg.encrypted.interface])
               ELSE w1
    ELSE w

\* RxOnAct honoured in IDLE only.
RxOnAct_IdleOnly(w, session, msg) ==
  IF w.rx.state = "IDLE"
    THEN LET w1 == RxSetState(w, "CONFIGURING", Some(10000))
         IN  IF w1.rx.sessions[session].prevSeqNo < msg.encrypted.header.seqNo
               THEN Emit([w1 EXCEPT !.rx.sessions[session].prevSeqNo =
                                      msg.encrypted.header.seqNo],
                         [k |-> "rx.act", interface |-> msg.encrypted.interface])
               ELSE w1
    ELSE w

\* the ACT case without setState in CONFIGURING: a pending timeout stays.
RxOnAct_KeepsTimeout(w, session, msg) ==
  IF w.rx.state = "IDLE" \/ w.rx.state = "CONFIGURING"
    THEN LET w1 == IF w.rx.state = "IDLE"
                     THEN RxSetState(w, "CONFIGURING", Some(10000)) ELSE w
         IN  IF w1.rx.sessions[session].prevSeqNo < msg.encrypted.header.seqNo
               THEN Emit([w1 EXCEPT !.rx.sessions[session].prevSeqNo =
                                      msg.encrypted.header.seqNo],
                         [k |-> "rx.act", interface |-> msg.encrypted.interface])
               ELSE w1
    ELSE w

\* the ACT case; session is the id of the record findTransmitter returned
RxOnAct(w, session, msg) ==
  IF w.rx.state = "IDLE" \/ w.rx.state = "CONFIGURING"
    THEN LET w1 == RxSetState(w, "CONFIGURING", Some(10000))
         IN  IF w1.rx.sessions[session].prevSeqNo < msg.encrypted.header.seqNo
               THEN Emit([w1 EXCEPT !.rx.sessions[session].prevSeqNo =
                                      msg.encrypted.header.seqNo],
                         [k |-> "rx.act", interface |-> msg.encrypted.interface])
               ELSE w1
    ELSE w

\* findTransmitter that falls back to a stored record for an unknown id.
findTransmitter_AnyRecord(w, msg) ==
  IF msg.unencrypted.header.sessionId \in DOMAIN w.rx.sessions
    THEN Some(msg.unencrypted.header.sessionId)
    ELSE IF DOMAIN w.rx.sessions # {}
           THEN Some(CHOOSE id \in DOMAIN w.rx.sessions : TRUE)
           ELSE None

findTransmitter(w, msg) ==
  IF msg.unencrypted.header.sessionId \in DOMAIN w.rx.sessions
    THEN Some(msg.unencrypted.header.sessionId)
    ELSE None

RxOnPublicMsg(w, pmsg) ==
  IF pmsg.unencrypted.header.type = "BIND" THEN RxOnBind(w, pmsg)
  ELSE LET session == findTransmitter(w, pmsg)
       IN  IF session = None THEN w
           ELSE LET msg == deprotectFrame(w.rx.sessions[session[1]].protection, pmsg)
                IN  IF msg = None THEN w
                    ELSE CASE msg[1].unencrypted.header.type = "UNBIND" ->
                                RxOnUnbind(w, msg[1])
                           [] msg[1].unencrypted.header.type = "CONFIGURE" ->
                                RxOnConfigure(w, msg[1])
                           [] msg[1].unencrypted.header.type = "ACT" ->
                                RxOnAct(w, session[1], msg[1])
                           [] OTHER -> w

----------------------------------------------------------------------------
(* platform.ts: the public bus. The Receiver is its only subscriber.       *)

\* The handlers of the Receiver work on w.rx. For the replaced Receiver they
\* run with the two Receivers exchanged; swapped tells which of them is in
\* w.rx, so that the bus calls them in the order they subscribed.
Swap(w) ==
  [w EXCEPT !.rx = w.old[1], !.old = Some(w.rx), !.swapped = ~w.swapped]

DeliverRx(w, msg) ==
  IF w.rx.subscribed THEN RxOnPublicMsg(w, msg) ELSE w

DeliverOld(w, msg) ==
  IF w.old # None /\ w.old[1].subscribed
    THEN Swap(RxOnPublicMsg(Swap(w), msg))
    ELSE w

\* SimpleBus.send on the public bus: every subscriber's handler runs, the
\* replaced Receiver's first
PublicBusSend(w, msg) ==
  IF w.swapped
    THEN DeliverOld(DeliverRx(w, msg), msg)
    ELSE DeliverRx(DeliverOld(w, msg), msg)

\* a Transmitter's this.publicMedium.send(msg)
PublicSend(w, who, msg) ==
  PublicBusSend(Emit(w, [k |-> "send", bus |-> "public", who |-> who, f |-> msg]),
                msg)

----------------------------------------------------------------------------
(* transmitter.ts *)

isPaired(x) == x.sessionId # None /\ ~x.unbound

TxSetState(w, t, state, idleTimeoutMs) ==
  LET notify == w.tx[t].state # state
      w0 == IF idleTimeoutMs # None
              THEN Rearm(w, t, w.tx[t].stateTimeout, idleTimeoutMs) ELSE w
      w1 == [w0 EXCEPT !.tx[t].state = state,
                       !.tx[t].stateTimeout = IF idleTimeoutMs # None
                                                THEN idleTimeoutMs ELSE @]
  IN  IF notify THEN Emit(w1, [k |-> "tx.stateChanged", who |-> t, v |-> state])
      ELSE w1

\* TxSend without the throw: an unpaired transmitter sends.
TxSend_Unpaired(w, t, type, pat, iface) ==
  LET w1 == [w EXCEPT !.tx[t].prevSeqNo = @ + 1]
      x == w1.tx[t]
      algo == IF x.protection = None
                THEN [type |-> AEAD_AES_128_OCB_TAGLEN64, sessionKey |-> "k1"]
                ELSE x.protection[1]
      sessionId == IF x.sessionId = None THEN "s1" ELSE x.sessionId[1]
  IN  PublicSend(w1, t,
        protectFrame(algo, Frame(type, sessionId, pat, x.prevSeqNo, iface)))

\* TxSend with this.prevSeqNo++ for ++this.prevSeqNo in the frame.
TxSend_PostIncrement(w, t, type, pat, iface) ==
  IF w.tx[t].protection = None
    THEN Emit(w, [k |-> "throw", who |-> t])
    ELSE LET w1 == [w EXCEPT !.tx[t].prevSeqNo = @ + 1]
             x == w1.tx[t]
         IN  PublicSend(w1, t,
               protectFrame(x.protection[1],
                 Frame(type, x.sessionId[1], pat, w.tx[t].prevSeqNo, iface)))

\* send(type, msg): pat and iface are the fields msg adds to the frame
TxSend(w, t, type, pat, iface) ==
  IF w.tx[t].protection = None
    THEN Emit(w, [k |-> "throw", who |-> t])
    ELSE LET w1 == [w EXCEPT !.tx[t].prevSeqNo = @ + 1]
             x == w1.tx[t]
         IN  PublicSend(w1, t,
               protectFrame(x.protection[1],
                 Frame(type, x.sessionId[1], pat, x.prevSeqNo, iface)))

\* TxOnPrivateMsg whose HELLO case starts the counter again.
TxOnPrivateMsg_NewCounter(w, t, msg) ==
  CASE msg.unencrypted.header.type = "HELLO" ->
         IF w.tx[t].state = "PAIRING"
           THEN LET algos == msg.unencrypted.protectionAlgorithms
                    w0 == [w EXCEPT !.helloSeen[t] = TRUE]
                    w1 == [w0 EXCEPT !.tx[t].protection =
                             IF algos = <<>> THEN None ELSE Some(algos[1])]
                IN  IF w1.tx[t].protection = None THEN w1
                    ELSE LET w2 == [w1 EXCEPT
                                      !.tx[t].sessionId =
                                         Some(msg.unencrypted.header.sessionId),
                                      !.tx[t].unbound = TRUE,
                                      !.tx[t].prevSeqNo = 0]
                         IN  TxSend(w2, t, "BIND", w2.tx[t].protection[1].type, 0)
           ELSE w
    [] msg.unencrypted.header.type = "BOUND" ->
         IF w.tx[t].state = "PAIRING"
           THEN LET w1 == [w EXCEPT !.tx[t].unbound = FALSE]
                    w2 == Emit(w1, [k |-> "tx.pairingChanged", who |-> t, paired |-> TRUE])
                IN  TxSetState(w2, t, "IDLE", None)
           ELSE w
    [] OTHER -> w

\* the interfaceTypes the HELLO case computes for its BIND, no
\* filterInterfaces being configured: the types of the HELLO's list. The
\* Receiver's BIND case does not read them, and Frame does not carry them.
BindInterfaceTypes(msg) == msg.unencrypted.supportedInterfaces

TxOnPrivateMsg(w, t, msg) ==
  CASE msg.unencrypted.header.type = "HELLO" ->
         IF w.tx[t].state = "PAIRING"
           THEN LET algos == msg.unencrypted.protectionAlgorithms
                    w0 == [w EXCEPT !.helloSeen[t] = TRUE]
                    w1 == [w0 EXCEPT !.tx[t].protection =
                             IF algos = <<>> THEN None ELSE Some(algos[1])]
                IN  IF w1.tx[t].protection = None THEN w1
                    ELSE LET w2 == [w1 EXCEPT
                                      !.tx[t].sessionId =
                                         Some(msg.unencrypted.header.sessionId),
                                      !.tx[t].unbound = TRUE]
                         IN  TxSend(w2, t, "BIND", w2.tx[t].protection[1].type, 0)
           ELSE w
    [] msg.unencrypted.header.type = "BOUND" ->
         IF w.tx[t].state = "PAIRING"
           THEN LET w1 == [w EXCEPT !.tx[t].unbound = FALSE]
                    w2 == Emit(w1, [k |-> "tx.pairingChanged", who |-> t, paired |-> TRUE])
                IN  TxSetState(w2, t, "IDLE", None)
           ELSE w
    [] OTHER -> w

\* act without the isPaired() check.
act_Unchecked(w, t, action) ==
  LET w1 == IF w.tx[t].state # "IDLE" THEN TxSetState(w, t, "IDLE", None) ELSE w
  IN  TxSend(w1, t, "ACT", 0, action.interface)

act(w, t, action) ==
  IF ~isPaired(w.tx[t]) THEN w
  ELSE LET w1 == IF w.tx[t].state # "IDLE" THEN TxSetState(w, t, "IDLE", None) ELSE w
       IN  TxSend(w1, t, "ACT", 0, action.interface)

unpair(w, t) ==
  IF ~isPaired(w.tx[t]) THEN w
  ELSE LET w1 == TxSend(w, t, "UNBIND", 0, 0)
       IN  IF Threw(w1) THEN w1
           ELSE Emit([w1 EXCEPT !.tx[t].unbound = TRUE],
                     [k |-> "tx.pairingChanged", who |-> t, paired |-> FALSE])

setConfiguring(w, t) ==
  IF w.tx[t].unbound THEN w
  ELSE TxSend(w, t, "CONFIGURE", 0, 0)

TxSetPairing(w, t) == TxSetState(w, t, "PAIRING", Some(10000))

\* a timeout callback that only forgets its handle
TxStateTimeout_NoTransition(w, t) == [w EXCEPT !.tx[t].stateTimeout = None]

\* the callback setState hands to scheduler.setTimeout
TxStateTimeout(w, t) ==
  TxSetState([w EXCEPT !.tx[t].stateTimeout = None], t, "IDLE", None)

----------------------------------------------------------------------------
(* platform.ts: the private bus. The Transmitters subscribe to it.         *)

RECURSIVE BusDeliver(_, _, _)
BusDeliver(w, msg, i) ==
  IF i > Len(cfg.transmitters) THEN w
  ELSE BusDeliver(IF w.tx[cfg.transmitters[i]].subscribed
                    THEN TxOnPrivateMsg(w, cfg.transmitters[i], msg)
                    ELSE w,
                  msg, i + 1)

PrivateSend(w, who, msg) ==
  BusDeliver(Emit(w, [k |-> "send", bus |-> "private", who |-> who, f |-> msg]),
             msg, 1)

----------------------------------------------------------------------------
(* receiver.ts: host calls and scheduler callbacks *)

\* generateSessionId without the look into the session table.
generateSessionId_Unchecked(w) == SessionIds

\* the ids generateSessionId can return: the PRNG's draws that have no record
generateSessionId(w) == SessionIds \ DOMAIN w.rx.sessions

\* setPairing honoured in IDLE as well.
RxSetPairing_FromIdle(w, sessionId, sessionKey) ==
  IF w.rx.state \notin {"CONFIGURING", "IDLE"} THEN w
  ELSE LET w1 == [w EXCEPT
                    !.rx.newSessionId = Some(sessionId),
                    !.rx.newProtections =
                       Some([i \in 1..Len(cfg.protectionAlgorithms) |->
                               [ type |-> cfg.protectionAlgorithms[i],
                                 sessionKey |-> sessionKey ]])]
           w2 == RxSetState(w1, "PAIRING", Some(10000))
       IN  [w2 EXCEPT !.rx.pairingInterval = Some(sessionId)]

RxSetPairing(w, sessionId, sessionKey) ==
  IF w.rx.state # "CONFIGURING" THEN w
  ELSE LET w1 == [w EXCEPT
                    !.rx.newSessionId = Some(sessionId),
                    !.rx.newProtections =
                       Some([i \in 1..Len(cfg.protectionAlgorithms) |->
                               [ type |-> cfg.protectionAlgorithms[i],
                                 sessionKey |-> sessionKey ]])]
           w2 == RxSetState(w1, "PAIRING", Some(10000))
       IN  [w2 EXCEPT !.rx.pairingInterval = Some(sessionId)]

\* setUnpairing without the state guard.
setUnpairing_AnyState(w) == RxSetState(w, "UNPAIRING", Some(10000))

setUnpairing(w) ==
  IF w.rx.state # "CONFIGURING" THEN w
  ELSE RxSetState(w, "UNPAIRING", Some(10000))

\* a timeout callback that does not look at the session table
RxStateTimeout_AlwaysIdle(w) ==
  RxSetState([w EXCEPT !.rx.stateTimeout = None], "IDLE", None)

\* the callback setState hands to scheduler.setTimeout
RxStateTimeout(w) ==
  RxSetState([w EXCEPT !.rx.stateTimeout = None],
             IF DOMAIN w.rx.sessions # {} THEN "IDLE" ELSE "CONFIGURING", None)

\* the callback setPairing hands to scheduler.setInterval
RxPairingInterval(w) ==
  PrivateSend(w, "rx",
    HelloFrame(w.rx.pairingInterval[1],
               IF w.rx.newProtections = None THEN <<>> ELSE w.rx.newProtections[1]))

----------------------------------------------------------------------------
(* The state machine *)

InitRx ==
  [ state |-> "STARTING", stateTimeout |-> Some(100), pairingInterval |-> None,
    sessions |-> [i \in {} |-> 0], newSessionId |-> None, newProtections |-> None,
    subscribed |-> TRUE ]

InitTx ==
  [ protection |-> None, sessionId |-> None, prevSeqNo |-> 0, unbound |-> FALSE,
    state |-> "IDLE", stateTimeout |-> None, subscribed |-> TRUE ]

Init ==
  /\ rx = InitRx
  /\ tx = [t \in TxIds |-> InitTx]
  /\ cfg = [ protectionAlgorithms |-> DEFAULT_PROTECTION_ALGORITHMS,
             transmitters |-> <<"t1">> ]
  /\ helloSeen = [t \in TxIds |-> FALSE]
  /\ nonces = {}
  /\ old = None

W == [ rx |-> rx, tx |-> tx, helloSeen |-> helloSeen, ev |-> <<>>,
       old |-> old, swapped |-> FALSE ]

Commit(w) ==
  /\ \A t \in TxIds : w.tx[t].prevSeqNo <= MaxSeq
  /\ rx' = w.rx
  /\ tx' = w.tx
  /\ helloSeen' = w.helloSeen
  /\ cfg' = cfg
  /\ nonces' = nonces
  /\ old' = w.old

\* Each operation's runs in the current state: the handler applied to every
\* input it can be given. The action takes one of them.

\* generateSessionId() and getRandomBytes(): the PRNG's draws
RxSetPairingRuns ==
  { RxSetPairing(W, sessionId, sessionKey) :
      sessionId \in generateSessionId(W), sessionKey \in Keys }

RxSetUnpairingRuns == { setUnpairing(W) }

RxTimeoutRuns == IF rx.stateTimeout # None THEN { RxStateTimeout(W) } ELSE {}

RxHelloRuns == IF rx.pairingInterval # None THEN { RxPairingInterval(W) } ELSE {}

TxSetPairingRuns == { TxSetPairing(W, t) : t \in Transmitters }

TxActRuns == { act(W, t, [interface |-> i]) : t \in Transmitters, i \in InterfaceType }

TxUnpairRuns == { unpair(W, t) : t \in Transmitters }

TxSetConfiguringRuns == { setConfiguring(W, t) : t \in Transmitters }

TxTimeoutRuns ==
  { TxStateTimeout(W, t) : t \in {u \in Transmitters : tx[u].stateTimeout # None} }

\* another station puts a frame on the public bus (a replay, a duplicate of a
\* burst, a frame of another session, a forgery)
PublicDeliverRuns == { PublicBusSend(W, f) : f \in PublicFrames }

HostRxSetPairing == \E w \in RxSetPairingRuns : Commit(w)
HostRxSetUnpairing == \E w \in RxSetUnpairingRuns : Commit(w)
RxTimeoutFires == \E w \in RxTimeoutRuns : Commit(w)
RxHelloTick == \E w \in RxHelloRuns : Commit(w)
HostTxSetPairing == \E w \in TxSetPairingRuns : Commit(w)
HostTxAct == \E w \in TxActRuns : Commit(w)
HostTxUnpair == \E w \in TxUnpairRuns : Commit(w)
HostTxSetConfiguring == \E w \in TxSetConfiguringRuns : Commit(w)
TxTimeoutFires == \E w \in TxTimeoutRuns : Commit(w)
PublicDeliver == \E w \in PublicDeliverRuns : Commit(w)

\* The runs of the host's calls, the timers and the transmitters' own traffic
GenuineRuns ==
  RxSetPairingRuns \cup RxSetUnpairingRuns \cup RxTimeoutRuns \cup RxHelloRuns
    \cup TxSetPairingRuns \cup TxActRuns \cup TxUnpairRuns
    \cup TxSetConfiguringRuns \cup TxTimeoutRuns

\* Every run a step of Next can take
Runs ==
  { w \in GenuineRuns \cup PublicDeliverRuns :
      \A t \in TxIds : w.tx[t].prevSeqNo <= MaxSeq }

Next ==
  \/ HostRxSetPairing
  \/ HostRxSetUnpairing
  \/ RxTimeoutFires
  \/ RxHelloTick
  \/ HostTxSetPairing
  \/ HostTxAct
  \/ HostTxUnpair
  \/ HostTxSetConfiguring
  \/ TxTimeoutFires
  \/ PublicDeliver

Spec == Init /\ [][Next]_vars

\* The same, for a Receiver configured with the default list or with two
\* protection algorithms.
InitAlgos ==
  /\ rx = InitRx
  /\ tx = [t \in TxIds |-> InitTx]
  /\ cfg \in [protectionAlgorithms : ProtectionConfigs, transmitters : {<<"t1">>}]
  /\ helloSeen = [t \in TxIds |-> FALSE]
  /\ nonces = {}
  /\ old = None

SpecAlgos == InitAlgos /\ [][Next]_vars

\* Two Transmitters and the Receiver, with no other station on the public bus.
InitTwo ==
  /\ rx = InitRx
  /\ tx = [t \in TxIds |-> InitTx]
  /\ cfg = [ protectionAlgorithms |-> DEFAULT_PROTECTION_ALGORITHMS,
             transmitters |-> <<"t1", "t2">> ]
  /\ helloSeen = [t \in TxIds |-> FALSE]
  /\ nonces = {}
  /\ old = None

NextTwo ==
  \/ HostRxSetPairing
  \/ HostRxSetUnpairing
  \/ RxTimeoutFires
  \/ RxHelloTick
  \/ HostTxSetPairing
  \/ HostTxAct
  \/ HostTxUnpair
  \/ HostTxSetConfiguring
  \/ TxTimeoutFires

SpecTwo == InitTwo /\ [][NextTwo]_vars

\* Two Transmitters and a PRNG whose 128-bit session keys do not repeat a key
\* that a Transmitter or a session record still holds.
KeysInUse ==
  { tx[t].protection[1].sessionKey : t \in {u \in TxIds : tx[u].protection # None} }
    \cup { rx.sessions[id].protection.sessionKey : id \in DOMAIN rx.sessions }

RxSetPairingFreshRuns ==
  { RxSetPairing(W, sessionId, sessionKey) :
      sessionId \in generateSessionId(W),
      sessionKey \in Keys \ KeysInUse }

HostRxSetPairingFresh == \E w \in RxSetPairingFreshRuns : Commit(w)

NextFreshKeys ==
  \/ HostRxSetPairingFresh
  \/ HostRxSetUnpairing
  \/ RxTimeoutFires
  \/ RxHelloTick
  \/ HostTxSetPairing
  \/ HostTxAct
  \/ HostTxUnpair
  \/ HostTxSetConfiguring
  \/ TxTimeoutFires

SpecFreshKeys == InitTwo /\ [][NextFreshKeys]_vars

\* Receiver.close(): publicStop() and the cancel function of the state
\* timeout. stateTimeout is None when no state timeout is pending; the
\* HELLO interval is not touched.
RxClose(w) ==
  LET w1 == [w EXCEPT !.rx.subscribed = FALSE]
  IN  IF w.rx.stateTimeout # None
        THEN Emit([w1 EXCEPT !.rx.stateTimeout = None],
                  [k |-> "clearTimeout", who |-> "rx"])
        ELSE w1

\* Transmitter.close(): privateStop()
TxClose(w, t) == [w EXCEPT !.tx[t].subscribed = FALSE]

RxCloseRuns == IF rx.subscribed THEN { RxClose(W) } ELSE {}

TxCloseRuns == { TxClose(W, t) : t \in {u \in Transmitters : tx[u].subscribed} }

HostRxClose == \E w \in RxCloseRuns : Commit(w)

HostTxClose == \E w \in TxCloseRuns : Commit(w)

\* A Transmitter and a Receiver that the host may close
NextClose ==
  \/ HostRxSetPairing
  \/ HostRxSetUnpairing
  \/ RxTimeoutFires
  \/ RxHelloTick
  \/ HostTxSetPairing
  \/ HostTxAct
  \/ HostTxUnpair
  \/ HostTxSetConfiguring
  \/ TxTimeoutFires
  \/ HostRxClose
  \/ HostTxClose

SpecClose == Init /\ [][NextClose]_vars

\* send() draws header.protection.nonce from prng.getRandomBytes(16 * 8) for
\* each frame. No handler reads the nonce, so the frames of the other
\* specifications leave it out; here each frame sent is recorded with the
\* nonce drawn for it.
CommitNonce(w) ==
  LET sends == SelectSeq(w.ev, LAMBDA e : e.k = "send" /\ e.bus = "public")
  IN  /\ \A t \in TxIds : w.tx[t].prevSeqNo <= MaxSeq
      /\ rx' = w.rx
      /\ tx' = w.tx
      /\ helloSeen' = w.helloSeen
      /\ cfg' = cfg
      /\ old' = w.old
      /\ \E drawn \in [1..Len(sends) -> Nonces] :
           nonces' = nonces \cup
             { [ who |-> sends[j].who,
                 algo |-> sends[j].f.encrypted.algo,
                 seqNo |-> sends[j].f.encrypted.protected.header.seqNo,
                 nonce |-> drawn[j] ] : j \in 1..Len(sends) }

RxHelloTickNonce == \E w \in RxHelloRuns : CommitNonce(w)

HostTxActNonce == \E w \in TxActRuns : CommitNonce(w)

HostTxUnpairNonce == \E w \in TxUnpairRuns : CommitNonce(w)

HostTxSetConfiguringNonce == \E w \in TxSetConfiguringRuns : CommitNonce(w)

NextNonce ==
  \/ HostRxSetPairing
  \/ HostRxSetUnpairing
  \/ RxTimeoutFires
  \/ RxHelloTickNonce
  \/ HostTxSetPairing
  \/ HostTxActNonce
  \/ HostTxUnpairNonce
  \/ HostTxSetConfiguringNonce
  \/ TxTimeoutFires

SpecNonce == Init /\ [][NextNonce]_vars

\* The frames another Receiver on the private bus can send: its HELLO, with
\* the list of its configuration (which may be empty), and its BOUND.
PrivateFrames ==
  { HelloFrame(s, algos) :
      s \in SessionIds, algos \in {<<>>} \cup { <<a>> : a \in Algos } }
    \cup { HelloFrameFrom(s, <<a>>, <<>>) : s \in SessionIds, a \in Algos }
    \cup { BoundFrame(s) : s \in SessionIds }

PrivateDeliverRuns == { BusDeliver(W, f, 1) : f \in PrivateFrames }

PrivateDeliver == \E w \in PrivateDeliverRuns : Commit(w)

\* A Transmitter and a Receiver, with another Receiver on the private bus
NextForeign ==
  \/ HostRxSetPairing
  \/ HostRxSetUnpairing
  \/ RxTimeoutFires
  \/ RxHelloTick
  \/ HostTxSetPairing
  \/ HostTxAct
  \/ HostTxUnpair
  \/ HostTxSetConfiguring
  \/ TxTimeoutFires
  \/ PrivateDeliver

SpecForeign == Init /\ [][NextForeign]_vars

\* App.vue: onRxFactoryReset constructs a new Receiver on the same buses and
\* with the same host; the Receiver it replaces is not closed. The new
\* Receiver's constructor subscribes and calls setState(STARTING, 100).
RxFactoryReset(w) ==
  Emit([w EXCEPT !.old = Some(w.rx), !.rx = InitRx],
       [k |-> "setTimeout", who |-> "rx", ms |-> 100])

\* the scheduler callbacks of the replaced Receiver
OldStateTimeout(w) == Swap(RxStateTimeout(Swap(w)))

OldPairingInterval(w) == Swap(RxPairingInterval(Swap(w)))

\* The Factory Reset button is disabled while the host's rxState is STARTING.
\* One factory reset is followed.
RxFactoryResetRuns ==
  IF old = None /\ rx.state # "STARTING" THEN { RxFactoryReset(W) } ELSE {}

OldTimeoutRuns ==
  IF old # None /\ old[1].stateTimeout # None THEN { OldStateTimeout(W) } ELSE {}

OldHelloRuns ==
  IF old # None /\ old[1].pairingInterval # None
    THEN { OldPairingInterval(W) } ELSE {}

HostRxFactoryReset == \E w \in RxFactoryResetRuns : Commit(w)
OldTimeoutFires == \E w \in OldTimeoutRuns : Commit(w)
OldHelloTick == \E w \in OldHelloRuns : Commit(w)

\* A Transmitter and a Receiver whose host can reset it to factory state
NextReset ==
  \/ HostRxSetPairing
  \/ HostRxSetUnpairing
  \/ RxTimeoutFires
  \/ RxHelloTick
  \/ HostTxSetPairing
  \/ HostTxAct
  \/ HostTxUnpair
  \/ HostTxSetConfiguring
  \/ TxTimeoutFires
  \/ HostRxFactoryReset
  \/ OldTimeoutFires
  \/ OldHelloTick

SpecReset == Init /\ [][NextReset]_vars

\* Spec with the Scheduler's guarantee: a timeout that stays pending (it is
\* neither cancelled nor replaced) calls its callback.
SpecLive ==
  Init /\ [][Next]_vars /\ WF_vars(RxTimeoutFires) /\ WF_vars(TxTimeoutFires)

----------------------------------------------------------------------------
(* Reading a handler's run: the events it made and the frame it was given  *)

Events(w, kind) == SelectSeq(w.ev, LAMBDA e : e.k = kind)

FType(f) == f.unencrypted.header.type
FSid(f) == f.unencrypted.header.sessionId
FSeq(f) == f.encrypted.protected.header.seqNo

FramesOfType(types) == {f \in PublicFrames : FType(f) \in types}

\* f is protected under the key of the record stored for its session id
Authentic(f) ==
  /\ FSid(f) \in DOMAIN rx.sessions
  /\ f.encrypted.algo = rx.sessions[FSid(f)].protection

----------------------------------------------------------------------------
(* C1 *)

\* A frame put on the public bus invokes the host's act only if it is an ACT,
\* the receiver is in IDLE or CONFIGURING and the frame's sequence number is
\* greater than the record's; the record then holds that number.
C1_ActOnlyFresh ==
  \A f \in PublicFrames :
    LET w == PublicBusSend(W, f)
        acts == Events(w, "rx.act")
    IN  acts # <<>> =>
          /\ FType(f) = "ACT"
          /\ rx.state \in {"IDLE", "CONFIGURING"}
          /\ Authentic(f)
          /\ rx.sessions[FSid(f)].prevSeqNo < FSeq(f)
          /\ w.rx.sessions[FSid(f)].prevSeqNo = FSeq(f)
          /\ Len(acts) = 1

\* The same ACT frame three times in a row: act is invoked once if the first
\* delivery is fresh, and not at all otherwise.
C1_Burst ==
  \A f \in FramesOfType({"ACT"}) :
    LET w3 == PublicBusSend(PublicBusSend(PublicBusSend(W, f), f), f)
        fresh == /\ rx.subscribed
                 /\ rx.state \in {"IDLE", "CONFIGURING"}
                 /\ Authentic(f)
                 /\ rx.sessions[FSid(f)].prevSeqNo < FSeq(f)
    IN  Len(Events(w3, "rx.act")) = IF fresh THEN 1 ELSE 0

\* No step lowers the sequence number stored in a record.
C1_NoDecrease ==
  \A w \in Runs :
    \A id \in DOMAIN rx.sessions \cap DOMAIN w.rx.sessions :
      w.rx.sessions[id].prevSeqNo >= rx.sessions[id].prevSeqNo

\* C1: per session record, act is invoked for an ACT only in IDLE or
\* CONFIGURING and only for a sequence number greater than the stored one,
\* which is then stored; the stored number never decreases; an ACT frame
\* delivered three times invokes act once.
C1_ReplayDefence == C1_ActOnlyFresh /\ C1_Burst /\ C1_NoDecrease

\* A record that has accepted an ACT (its number is above the BIND's 1) while
\* a fresh ACT and a replayed one can both be delivered.
C1_Witness ==
  /\ rx.state = "CONFIGURING"
  /\ rx.stateTimeout = Some(10000)
  /\ \E f, g \in FramesOfType({"ACT"}) :
       /\ Authentic(f) /\ Authentic(g) /\ FSid(f) = FSid(g)
       /\ FSeq(g) = rx.sessions[FSid(g)].prevSeqNo
       /\ FSeq(f) > FSeq(g)
       /\ Events(PublicBusSend(W, f), "rx.act") # <<>>
       /\ Events(PublicBusSend(W, g), "rx.act") = <<>>

----------------------------------------------------------------------------
(* C2 *)

\* C2: an ACT frame whose sequence number is not above the record's leaves
\* the receiver as it was (state, timeout, records) and makes no callback.
C2_ReplayedActNoEffect ==
  \A f \in FramesOfType({"ACT"}) :
    (Authentic(f) /\ FSeq(f) <= rx.sessions[FSid(f)].prevSeqNo) =>
      LET w == PublicBusSend(W, f)
      IN  w.rx = rx /\ w.ev = <<>>

----------------------------------------------------------------------------
(* C3 *)

\* C3: a CONFIGURE or an UNBIND changes the receiver only if its sequence
\* number is above the record's, and an accepted CONFIGURE stores its number.
C3_ReplayDefenceAllTypes ==
  \A f \in FramesOfType({"CONFIGURE", "UNBIND"}) :
    LET w == PublicBusSend(W, f)
    IN  w.rx # rx =>
          /\ Authentic(f)
          /\ rx.sessions[FSid(f)].prevSeqNo < FSeq(f)
          /\ FType(f) = "CONFIGURE" =>
               w.rx.sessions[FSid(f)].prevSeqNo = FSeq(f)

----------------------------------------------------------------------------
(* C4 *)

\* f passes every check of the BIND case but the state's
ValidBind(f) ==
  /\ FType(f) = "BIND"
  /\ rx.newProtections # None
  /\ \E i \in 1..Len(rx.newProtections[1]) :
       /\ rx.newProtections[1][i].type = f.unencrypted.protectionAlgorithmType
       /\ rx.newProtections[1][i] = f.encrypted.algo
  /\ Some(FSid(f)) = rx.newSessionId

Unchanged(w) == w.rx = rx /\ w.tx = tx /\ w.ev = <<>>

\* C4: a BIND outside PAIRING and an UNBIND outside UNPAIRING change nothing
\* (records, state, timeout) and make the receiver send nothing.
C4_OutOfStateDiscarded ==
  /\ rx.state # "PAIRING" =>
       \A f \in FramesOfType({"BIND"}) : Unchanged(PublicBusSend(W, f))
  /\ rx.state # "UNPAIRING" =>
       \A f \in FramesOfType({"UNBIND"}) : Unchanged(PublicBusSend(W, f))

\* Outside PAIRING and UNPAIRING, with a BIND that matches the pending id and
\* key and an UNBIND under a stored record at hand.
C4_Witness ==
  /\ rx.state \in {"IDLE", "CONFIGURING"}
  /\ \E f \in FramesOfType({"BIND"}) : ValidBind(f)
  /\ \E f \in FramesOfType({"UNBIND"}) : Authentic(f)

----------------------------------------------------------------------------
(* C5 *)

\* A step adds records to the session table only by leaving PAIRING, and then
\* it adds the one record of the pending session id.
C5_GrowthEndsWindow ==
  \A w \in Runs :
    LET new == DOMAIN w.rx.sessions \ DOMAIN rx.sessions
    IN  new # {} =>
          /\ rx.state = "PAIRING"
          /\ w.rx.state # "PAIRING"
          /\ rx.newSessionId # None
          /\ new = {rx.newSessionId[1]}

\* Of two BIND frames delivered in PAIRING one after the other, the first that
\* matches the pending id and key gives the record its sequence number, and
\* the later one changes nothing.
C5_FirstMatchingBind ==
  (rx.state = "PAIRING" /\ rx.subscribed) =>
    \A f, g \in FramesOfType({"BIND"}) :
      LET w1 == PublicBusSend(W, f)
          w2 == PublicBusSend(w1, g)
          installed == IF ValidBind(f) THEN f ELSE g
      IN  /\ Cardinality(DOMAIN w2.rx.sessions) <= Cardinality(DOMAIN rx.sessions) + 1
          /\ (ValidBind(f) \/ ValidBind(g)) =>
               /\ DOMAIN w2.rx.sessions = DOMAIN rx.sessions \cup {FSid(installed)}
               /\ w2.rx.sessions[FSid(installed)] =
                    [ protection |-> installed.encrypted.algo,
                      prevSeqNo |-> FSeq(installed) ]
          /\ ValidBind(f) => w2.rx = w1.rx

\* C5: from the setPairing() that enters PAIRING to the next exit from
\* PAIRING the session table grows by at most one record, whatever BIND frames
\* arrive, and that record is of the first BIND matching the pending id.
C5_OneSessionPerWindow == C5_GrowthEndsWindow /\ C5_FirstMatchingBind

\* A pairing window with a record already stored, the transmitter waiting for
\* the HELLO, and two different BIND frames that both match the pending id.
C5_Witness ==
  /\ rx.state = "PAIRING"
  /\ rx.subscribed
  /\ DOMAIN rx.sessions # {}
  /\ \A t \in Transmitters : tx[t].state = "PAIRING"
  /\ \E f, g \in FramesOfType({"BIND"}) : ValidBind(f) /\ ValidBind(g) /\ f # g

----------------------------------------------------------------------------
(* C6 *)

\* C6: in PAIRING a BIND whose algorithm type matches a pending candidate,
\* that deprotects under the candidate and whose session id is the pending id
\* stores a record with the candidate's protection and the BIND's sequence
\* number, sends exactly one BOUND with that id on the private bus and enters
\* CONFIGURING with a 30 s timeout; any other BIND changes and sends nothing.
C6_BindAcceptance ==
  (rx.state = "PAIRING" /\ rx.subscribed) =>
    \A f \in FramesOfType({"BIND"}) :
      LET w == PublicBusSend(W, f)
      IN  IF ValidBind(f)
            THEN /\ w.rx.sessions =
                      SessionsSet(rx.sessions, FSid(f),
                        [ protection |-> f.encrypted.algo, prevSeqNo |-> FSeq(f) ])
                 /\ \E i \in 1..Len(rx.newProtections[1]) :
                      w.rx.sessions[FSid(f)].protection = rx.newProtections[1][i]
                 /\ Events(w, "send") =
                      << [k |-> "send", bus |-> "private", who |-> "rx",
                          f |-> BoundFrame(FSid(f))] >>
                 /\ w.rx.state = "CONFIGURING"
                 /\ w.rx.stateTimeout = Some(30000)
                 /\ Events(w, "setTimeout") =
                      << [k |-> "setTimeout", who |-> "rx", ms |-> 30000] >>
            ELSE Unchanged(w)

\* A pairing window that offers two algorithms, with BIND frames at hand that
\* match the second candidate, and that fail on the algorithm type, on the
\* key and on the session id.
C6_Witness ==
  /\ rx.state = "PAIRING"
  /\ rx.subscribed
  /\ Len(cfg.protectionAlgorithms) = 2
  /\ \E f \in FramesOfType({"BIND"}) :
       ValidBind(f) /\ f.encrypted.algo = rx.newProtections[1][2]
  /\ \E f, g \in FramesOfType({"BIND"}) :
       /\ ~ValidBind(f) /\ ~ValidBind(g)
       /\ Some(FSid(f)) = rx.newSessionId /\ Some(FSid(g)) # rx.newSessionId
       /\ f.encrypted.algo.sessionKey # rx.newProtections[1][1].sessionKey
       /\ g.encrypted.algo = rx.newProtections[1][1]
       /\ g.unencrypted.protectionAlgorithmType = g.encrypted.algo.type

----------------------------------------------------------------------------
(* C7 *)

\* t is a transmitter as constructed but for being in PAIRING
NeverPairedInPairing(t) ==
  /\ tx[t].state = "PAIRING"
  /\ tx[t].subscribed
  /\ tx[t].protection = None
  /\ tx[t].sessionId = None
  /\ tx[t].prevSeqNo = 0
  /\ ~tx[t].unbound

\* C7: with the receiver's HELLO interval running after setPairing() and a
\* single never-paired transmitter in PAIRING, the HELLO tick puts HELLO,
\* BIND with sequence number 1 and BOUND on the buses in that order; after it
\* the receiver is in CONFIGURING with exactly one new record whose id and
\* key are the transmitter's, the transmitter is in IDLE and paired,
\* pairingChanged(true) was notified once and the HELLO interval is stopped.
C7_HappyPairing ==
  \A t \in Transmitters :
    (/\ Transmitters = {t}
     /\ rx.pairingInterval # None
     /\ rx.subscribed
     /\ NeverPairedInPairing(t)) =>
      LET w == RxPairingInterval(W)
          sends == Events(w, "send")
          sid == rx.pairingInterval[1]
      IN  /\ Len(sends) = 3
          /\ sends[1] = [k |-> "send", bus |-> "private", who |-> "rx",
                         f |-> HelloFrame(sid, rx.newProtections[1])]
          /\ sends[2].bus = "public" /\ sends[2].who = t
          /\ FType(sends[2].f) = "BIND"
          /\ FSid(sends[2].f) = sid
          /\ FSeq(sends[2].f) = 1
          /\ sends[3] = [k |-> "send", bus |-> "private", who |-> "rx",
                         f |-> BoundFrame(sid)]
          /\ w.rx.state = "CONFIGURING"
          /\ sid \notin DOMAIN rx.sessions
          /\ w.rx.sessions =
               SessionsSet(rx.sessions, sid,
                 [ protection |-> w.tx[t].protection[1], prevSeqNo |-> 1 ])
          /\ w.tx[t].sessionId = Some(sid)
          /\ w.tx[t].state = "IDLE"
          /\ isPaired(w.tx[t])
          /\ Events(w, "tx.pairingChanged") =
               << [k |-> "tx.pairingChanged", who |-> t, paired |-> TRUE] >>
          /\ w.rx.pairingInterval = None

\* The HELLO interval is running, the transmitter is in PAIRING and was never
\* paired, and the tick makes the transmitter paired.
C7_Witness ==
  /\ rx.pairingInterval # None
  /\ rx.subscribed
  /\ Transmitters = {"t1"}
  /\ NeverPairedInPairing("t1")
  /\ isPaired(RxPairingInterval(W).tx["t1"])

----------------------------------------------------------------------------
(* C8 *)

\* the BOUND frames the receiver puts on the private bus during the step w
BoundsSent(w) ==
  SelectSeq(w.ev, LAMBDA e : e.k = "send" /\ e.bus = "private" /\ FType(e.f) = "BOUND")

\* C8: a transmitter acts on a BOUND (unbound cleared, pairingChanged(true),
\* IDLE) only if the BOUND carries the session id the transmitter adopted
\* from a HELLO; a transmitter whose session id is another one, or that has
\* adopted none, is left as it was by the BOUND and notifies nothing.
C8_BoundOnlyForAdoptedSession ==
  \A w \in GenuineRuns :
    \A i \in 1..Len(BoundsSent(w)) :
      \A t \in Transmitters :
        LET sid == FSid(BoundsSent(w)[i].f)
        IN  IF w.tx[t].sessionId = Some(sid) /\ w.helloSeen[t]
              THEN TRUE
              ELSE /\ w.tx[t] = tx[t]
                   /\ \A j \in 1..Len(w.ev) :
                        w.ev[j].k \in {"tx.pairingChanged", "tx.stateChanged"}
                          => w.ev[j].who # t

----------------------------------------------------------------------------
(* C9 *)

\* the receiver holds a record with t's session id and key
RecordOf(t) ==
  /\ tx[t].sessionId # None
  /\ tx[t].protection # None
  /\ tx[t].sessionId[1] \in DOMAIN rx.sessions
  /\ rx.sessions[tx[t].sessionId[1]].protection = tx[t].protection[1]

----------------------------------------------------------------------------
(* C10 *)

PublicSendsBy(w, t) ==
  SelectSeq(w.ev, LAMBDA e : e.k = "send" /\ e.bus = "public" /\ e.who = t)

\* C10: a transmitter that has not received a HELLO while in PAIRING puts no
\* frame on the public bus, in any step of the system and on any call of
\* setPairing, act, unpair or setConfiguring, any BOUND delivery and any
\* timeout; and it has no protection to send under.
C10_SilentBeforeHello ==
  /\ \A w \in Runs :
       \A t \in Transmitters :
         ~w.helloSeen[t] => PublicSendsBy(w, t) = <<>>
  /\ \A t \in Transmitters :
       ~helloSeen[t] =>
         /\ tx[t].protection = None
         /\ tx[t].prevSeqNo = 0
         /\ \A sid \in SessionIds :
              PublicSendsBy(TxOnPrivateMsg(W, t, BoundFrame(sid)), t) = <<>>
         /\ \A i \in InterfaceType :
              PublicSendsBy(act(W, t, [interface |-> i]), t) = <<>>
         /\ PublicSendsBy(unpair(W, t), t) = <<>>
         /\ PublicSendsBy(setConfiguring(W, t), t) = <<>>
         /\ PublicSendsBy(TxSetPairing(W, t), t) = <<>>
         /\ PublicSendsBy(TxStateTimeout(W, t), t) = <<>>

\* A transmitter that was put in PAIRING and taken out of it by the BOUND of
\* another transmitter's pairing, without a HELLO, and on which
\* setConfiguring() throws.
C10_Witness ==
  \E t, u \in Transmitters :
    /\ t # u
    /\ ~helloSeen[t]
    /\ tx[t].state = "IDLE"
    /\ tx[t].stateTimeout # None
    /\ isPaired(tx[u])
    /\ Threw(setConfiguring(W, t))

----------------------------------------------------------------------------
(* C11 *)

\* C11: act() on a transmitter for which isPaired() is false sends nothing,
\* leaves the sequence counter, the state and the timeout as they are and
\* calls nothing.
C11_ActUnpairedNoOp ==
  \A t \in Transmitters, i \in InterfaceType :
    ~isPaired(tx[t]) => act(W, t, [interface |-> i]) = W

\* A transmitter in PAIRING that adopted a HELLO and sent its BIND, to which
\* no BOUND came back; it holds a key it could send under.
C11_Witness ==
  \E t \in Transmitters :
    /\ ~isPaired(tx[t])
    /\ tx[t].unbound
    /\ tx[t].state = "PAIRING"
    /\ tx[t].protection # None
    /\ tx[t].prevSeqNo = 1
    /\ tx[t].sessionId[1] \notin DOMAIN rx.sessions

----------------------------------------------------------------------------
(* C12 *)

\* C12: unpair() on a transmitter for which isPaired() is true sends exactly
\* one UNBIND under its key and session id with the next sequence number,
\* sets unbound, notifies pairingChanged(false) once and keeps key and
\* session id; on a transmitter that is not paired it does nothing.
C12_Unpair ==
  \A t \in Transmitters :
    LET w == unpair(W, t)
    IN  IF isPaired(tx[t])
          THEN /\ tx[t].protection # None
               /\ PublicSendsBy(w, t) =
                    << [k |-> "send", bus |-> "public", who |-> t,
                        f |-> protectFrame(tx[t].protection[1],
                                Frame("UNBIND", tx[t].sessionId[1], 0,
                                      tx[t].prevSeqNo + 1, 0))] >>
               /\ w.tx[t] = [tx[t] EXCEPT !.unbound = TRUE, !.prevSeqNo = @ + 1]
               /\ Events(w, "tx.pairingChanged") =
                    << [k |-> "tx.pairingChanged", who |-> t, paired |-> FALSE] >>
               /\ ~Threw(w)
          ELSE w = W

----------------------------------------------------------------------------
(* C13 *)

\* C13: setConfiguring() on a paired transmitter sends exactly one CONFIGURE
\* with the next sequence number; on a transmitter that was never paired or
\* is unbound it returns having sent nothing, with the counter as it was,
\* and raises no error.
C13_SetConfiguring ==
  \A t \in Transmitters :
    LET w == setConfiguring(W, t)
    IN  IF isPaired(tx[t])
          THEN /\ tx[t].protection # None
               /\ PublicSendsBy(w, t) =
                    << [k |-> "send", bus |-> "public", who |-> t,
                        f |-> protectFrame(tx[t].protection[1],
                                Frame("CONFIGURE", tx[t].sessionId[1], 0,
                                      tx[t].prevSeqNo + 1, 0))] >>
               /\ w.tx[t].prevSeqNo = tx[t].prevSeqNo + 1
               /\ ~Threw(w)
          ELSE /\ PublicSendsBy(w, t) = <<>>
               /\ w.tx[t].prevSeqNo = tx[t].prevSeqNo
               /\ ~Threw(w)

----------------------------------------------------------------------------
(* C14 *)

\* every run of a host call, a timer or a frame delivery on either bus
AnyRuns == GenuineRuns \cup PublicDeliverRuns \cup PrivateDeliverRuns

\* C14: the frames a transmitter sends in a step are numbered from its
\* counter plus one upwards without a gap, and the step leaves the counter at
\* the number of the last frame sent (the counter starts at 0, so the first
\* frame is 1); no step resets or lowers the counter, a HELLO that replaces
\* key and session id included.
C14_SeqNoByOne ==
  \A w \in AnyRuns :
    \A t \in Transmitters :
      LET sent == PublicSendsBy(w, t)
      IN  /\ \A j \in 1..Len(sent) : FSeq(sent[j].f) = tx[t].prevSeqNo + j
          /\ w.tx[t].prevSeqNo = tx[t].prevSeqNo + Len(sent)

\* A transmitter in PAIRING that holds a session and has sent frames, and a
\* HELLO of another session that it adopts and answers with a BIND.
C14_Witness ==
  \E t \in Transmitters, f \in PrivateFrames :
    LET w == BusDeliver(W, f, 1)
    IN  /\ tx[t].sessionId # None
        /\ tx[t].prevSeqNo >= 1
        /\ w.tx[t].sessionId # tx[t].sessionId
        /\ w.tx[t].protection # tx[t].protection
        /\ Len(PublicSendsBy(w, t)) = 1

----------------------------------------------------------------------------
(* C15 *)

\* C15: no two frames a transmitter has sent under the same session key
\* carry the same nonce.
C15_NonceNeverReused ==
  \A a, b \in nonces :
    (/\ a.who = b.who
     /\ a.algo.sessionKey = b.algo.sessionKey
     /\ a.nonce = b.nonce) => a = b

----------------------------------------------------------------------------
(* C16 *)

\* C16: in UNPAIRING an UNBIND protected under the record of its session id
\* removes that record and no other, leaves the other records as they were,
\* puts the receiver in IDLE and notifies stateChanged(IDLE).
C16_UnbindDeletesRecord ==
  (rx.state = "UNPAIRING" /\ rx.subscribed) =>
    \A f \in FramesOfType({"UNBIND"}) :
      Authentic(f) =>
        LET w == PublicBusSend(W, f)
        IN  /\ DOMAIN w.rx.sessions = DOMAIN rx.sessions \ {FSid(f)}
            /\ \A id \in DOMAIN w.rx.sessions : w.rx.sessions[id] = rx.sessions[id]
            /\ w.rx.state = "IDLE"
            /\ Events(w, "rx.stateChanged") =
                 << [k |-> "rx.stateChanged", v |-> "IDLE"] >>

\* UNPAIRING with two records and an UNBIND under one of them at hand.
C16_Witness ==
  /\ rx.state = "UNPAIRING"
  /\ rx.subscribed
  /\ Cardinality(DOMAIN rx.sessions) = 2
  /\ \E f \in FramesOfType({"UNBIND"}) : Authentic(f)

----------------------------------------------------------------------------
(* C17 *)

\* C17: in UNPAIRING every UNBIND frame, whether the table still holds a
\* record for its session id or not, puts the receiver in IDLE and notifies
\* stateChanged(IDLE).
C17_UnbindAlwaysSignalled ==
  (rx.state = "UNPAIRING" /\ rx.subscribed) =>
    \A f \in FramesOfType({"UNBIND"}) :
      LET w == PublicBusSend(W, f)
      IN  /\ w.rx.state = "IDLE"
          /\ Events(w, "rx.stateChanged") =
               << [k |-> "rx.stateChanged", v |-> "IDLE"] >>

----------------------------------------------------------------------------
(* C18 *)

\* C18: the receiver is in IDLE only with a non-empty session table, and an
\* UNBIND honoured in UNPAIRING leaves it in IDLE when a record remains and
\* in CONFIGURING when none does.
C18_IdleOnlyWithSessions ==
  /\ rx.state = "IDLE" => DOMAIN rx.sessions # {}
  /\ (rx.state = "UNPAIRING" /\ rx.subscribed) =>
       \A f \in FramesOfType({"UNBIND"}) :
         Authentic(f) =>
           LET w == PublicBusSend(W, f)
           IN  w.rx.state = IF DOMAIN w.rx.sessions # {} THEN "IDLE"
                            ELSE "CONFIGURING"

----------------------------------------------------------------------------
(* C19 *)

\* C19: after close() the receiver has no state timeout and no HELLO interval
\* pending, and no frame delivered on the public bus makes it send, call back
\* or change.
C19_ClosedReceiverQuiet ==
  rx.subscribed =>
    LET w == RxClose(W)
    IN  /\ w.rx.stateTimeout = None
        /\ w.rx.pairingInterval = None
        /\ \A f \in PublicFrames : PublicBusSend(w, f) = w

----------------------------------------------------------------------------
(* C20 *)

\* C20: after close() the transmitter has no timeout pending, and no frame
\* delivered on the private bus makes it send, call back or change.
C20_ClosedTransmitterQuiet ==
  \A t \in Transmitters :
    tx[t].subscribed =>
      LET w == TxClose(W, t)
      IN  /\ w.tx[t].stateTimeout = None
          /\ \A f \in PrivateFrames : BusDeliver(w, f, 1) = w

----------------------------------------------------------------------------
(* C21 *)

\* the HELLO frames the receiver puts on the private bus during the step w
HellosSent(w) ==
  SelectSeq(w.ev, LAMBDA e : e.k = "send" /\ e.bus = "private" /\ FType(e.f) = "HELLO")

\* C21: the HELLO interval is pending exactly while the state is PAIRING and
\* it carries the pending session id; an honoured setPairing() starts it with
\* the id it minted and no step inside the window changes that id; a step
\* sends a HELLO only from PAIRING and only with that id.
C21_HelloOnlyInPairing ==
  /\ rx.pairingInterval # None <=> rx.state = "PAIRING"
  /\ rx.state = "PAIRING" => rx.pairingInterval = rx.newSessionId
  /\ rx.state = "CONFIGURING" =>
       \A sessionId \in SessionIds \ DOMAIN rx.sessions, sessionKey \in Keys :
         LET w == RxSetPairing(W, sessionId, sessionKey)
         IN  /\ w.rx.state = "PAIRING"
             /\ w.rx.pairingInterval = Some(sessionId)
             /\ HellosSent(w) = <<>>
  /\ \A w \in Runs :
       /\ (rx.state = "PAIRING" /\ w.rx.state = "PAIRING") =>
            w.rx.pairingInterval = rx.pairingInterval
       /\ \A j \in 1..Len(HellosSent(w)) :
            /\ rx.state = "PAIRING"
            /\ Some(FSid(HellosSent(w)[j].f)) = rx.newSessionId

\* PAIRING left by a BIND: the window of a second pairing, in which the
\* HELLO tick is answered and ends the window.
C21_Witness ==
  /\ rx.state = "PAIRING"
  /\ DOMAIN rx.sessions # {}
  /\ Len(HellosSent(RxPairingInterval(W))) = 1
  /\ RxPairingInterval(W).rx.state = "CONFIGURING"
  /\ RxPairingInterval(W).rx.pairingInterval = None

----------------------------------------------------------------------------
(* C22 *)

InWindow == rx.state \in {"PAIRING", "UNPAIRING"}

RxTimerEvents(w) ==
  SelectSeq(w.ev, LAMBDA e : e.k \in {"setTimeout", "clearTimeout"} /\ e.who = "rx")

\* In PAIRING and UNPAIRING the 10 s timeout of the entry is pending; its
\* callback moves to IDLE with a record and to CONFIGURING without, keeps the
\* records and notifies the new state once; a step that stays in the window
\* neither cancels nor arms a receiver timeout, and a step that leaves it is
\* the timeout, a BIND that added a record or an UNBIND that deleted one.
C22_WindowTimeout ==
  /\ rx.state = "CONFIGURING" =>
       /\ \A w \in RxSetPairingRuns :
            /\ w.rx.state = "PAIRING"
            /\ Events(w, "setTimeout") = <<[k |-> "setTimeout", who |-> "rx", ms |-> 10000]>>
       /\ LET w == setUnpairing(W)
          IN  /\ w.rx.state = "UNPAIRING"
              /\ Events(w, "setTimeout") = <<[k |-> "setTimeout", who |-> "rx", ms |-> 10000]>>
  /\ InWindow =>
       /\ rx.stateTimeout = Some(10000)
       /\ LET w == RxStateTimeout(W)
              to == IF DOMAIN rx.sessions # {} THEN "IDLE" ELSE "CONFIGURING"
          IN  /\ w.rx.state = to
              /\ w.rx.stateTimeout = None
              /\ w.rx.sessions = rx.sessions
              /\ w.ev = <<[k |-> "rx.stateChanged", v |-> to]>>
       /\ \A w \in Runs \ RxTimeoutRuns :
            IF w.rx.state = rx.state
              THEN /\ RxTimerEvents(w) = <<>>
                   /\ w.rx.stateTimeout = rx.stateTimeout
              ELSE \/ /\ rx.state = "PAIRING"
                      /\ w.rx.state = "CONFIGURING"
                      /\ DOMAIN w.rx.sessions = DOMAIN rx.sessions \cup {rx.newSessionId[1]}
                   \/ /\ rx.state = "UNPAIRING"
                      /\ w.rx.state = "IDLE"
                      /\ \E id \in DOMAIN rx.sessions :
                           DOMAIN w.rx.sessions = DOMAIN rx.sessions \ {id}

\* C22: a receiver in PAIRING or UNPAIRING leaves that state: by the 10 s
\* timeout armed on entry, which nothing extends, unless a BIND (an UNBIND)
\* ended the window before; the timeout moves to IDLE or CONFIGURING by the
\* session table, which it keeps, and notifies the new state.
C22_WindowEnds == []C22_WindowTimeout /\ (InWindow ~> ~InWindow)

\* A window with a record held, host calls and frames at hand, about to end
\* by its timeout in IDLE.
C22_Witness ==
  /\ rx.state = "UNPAIRING"
  /\ DOMAIN rx.sessions # {}
  /\ \E w \in Runs \ RxTimeoutRuns : w.rx.state = rx.state /\ w.ev # <<>>
  /\ RxStateTimeout(W).rx.state = "IDLE"

----------------------------------------------------------------------------
(* C23 *)

TxTimerEvents(w, t) ==
  SelectSeq(w.ev, LAMBDA e : e.k \in {"setTimeout", "clearTimeout"} /\ e.who = t)

TxStateChanges(w, t) ==
  SelectSeq(w.ev, LAMBDA e : e.k = "tx.stateChanged" /\ e.who = t)

\* setPairing() in any state: PAIRING, the pending timeout cancelled and one
\* of 10 s armed, nothing else touched; in PAIRING that timeout is pending
\* and its callback moves to IDLE, notifies IDLE and keeps key, session id,
\* counter and pairing; every step that leaves PAIRING ends in IDLE and
\* notifies it.
C23_SetPairingAndTimeout ==
  \A t \in Transmitters :
    /\ LET w == TxSetPairing(W, t)
       IN  /\ w.tx[t] = [tx[t] EXCEPT !.state = "PAIRING", !.stateTimeout = Some(10000)]
           /\ w.rx = rx
           /\ TxTimerEvents(w, t) =
                (IF tx[t].stateTimeout # None
                   THEN <<[k |-> "clearTimeout", who |-> t]>> ELSE <<>>)
                \o <<[k |-> "setTimeout", who |-> t, ms |-> 10000]>>
           /\ TxStateChanges(w, t) =
                (IF tx[t].state # "PAIRING"
                   THEN <<[k |-> "tx.stateChanged", who |-> t, v |-> "PAIRING"]>>
                   ELSE <<>>)
    /\ tx[t].state = "PAIRING" =>
         /\ tx[t].stateTimeout = Some(10000)
         /\ LET w == TxStateTimeout(W, t)
            IN  /\ w.tx[t] = [tx[t] EXCEPT !.state = "IDLE", !.stateTimeout = None]
                /\ w.rx = rx
                /\ w.ev = <<[k |-> "tx.stateChanged", who |-> t, v |-> "IDLE"]>>
         /\ \A w \in Runs :
              w.tx[t].state # "PAIRING" =>
                /\ w.tx[t].state = "IDLE"
                /\ TxStateChanges(w, t) =
                     <<[k |-> "tx.stateChanged", who |-> t, v |-> "IDLE"]>>

\* C23: setPairing() enters PAIRING from any state with exactly one 10 s
\* timeout pending, and a transmitter in PAIRING returns to IDLE (by that
\* timeout when no BOUND ends the window), notified as stateChanged(IDLE),
\* the timeout leaving key, session id and counter as they were.
C23_PairingReturnsToIdle ==
  /\ []C23_SetPairingAndTimeout
  /\ \A t \in TxIds : (tx[t].state = "PAIRING") ~> (tx[t].state = "IDLE")

\* A paired transmitter that has sent frames is in PAIRING again, its timeout
\* pending, so that setPairing() has one to cancel and the timeout has a key,
\* a session id and a counter to keep.
C23_Witness ==
  \E t \in Transmitters :
    /\ tx[t].state = "PAIRING"
    /\ tx[t].protection # None
    /\ tx[t].sessionId # None
    /\ tx[t].prevSeqNo > 0
    /\ Len(TxTimerEvents(TxSetPairing(W, t), t)) = 2

----------------------------------------------------------------------------
(* C24 *)

\* In STARTING the 100 ms timeout of the constructor is pending; every other
\* step, the public frames among them, leaves the receiver as it is and calls
\* no callback of its host; the timeout's callback moves to IDLE with a record
\* and to CONFIGURING without and notifies that state.
C24_Starting ==
  rx.state = "STARTING" =>
    /\ rx.stateTimeout = Some(100)
    /\ \A w \in Runs \ RxTimeoutRuns :
         /\ w.rx = rx
         /\ Events(w, "rx.act") = <<>>
         /\ Events(w, "rx.stateChanged") = <<>>
    /\ \A f \in PublicFrames : Unchanged(PublicBusSend(W, f))
    /\ LET w == RxStateTimeout(W)
           to == IF DOMAIN rx.sessions # {} THEN "IDLE" ELSE "CONFIGURING"
       IN  /\ w.rx = [rx EXCEPT !.state = to, !.stateTimeout = None]
           /\ w.ev = <<[k |-> "rx.stateChanged", v |-> to]>>

\* C24: a new receiver stays in STARTING, deaf to public frames, until its
\* 100 ms timeout fires, and then is in IDLE (a record held) or CONFIGURING
\* (none), its host notified of that state.
C24_StartingEnds ==
  /\ rx.state = "STARTING"
  /\ []C24_Starting
  /\ (rx.state = "STARTING") ~> (rx.state \in {"IDLE", "CONFIGURING"})

\* Still in STARTING while the transmitter's host has already begun pairing.
C24_Witness ==
  /\ rx.state = "STARTING"
  /\ \E t \in Transmitters : tx[t].state = "PAIRING"
  /\ RxStateTimeout(W).rx.state = "CONFIGURING"

----------------------------------------------------------------------------
(* C25 *)

\* C25: outside CONFIGURING, setPairing() (whatever the PRNG would draw) and
\* setUnpairing() leave the receiver as it is (state, pending timeout, pending
\* session id and key, HELLO sender, session table), send nothing, arm and
\* cancel nothing and call no callback.
C25_IgnoredOutsideConfiguring ==
  rx.state # "CONFIGURING" =>
    /\ \A sessionId \in SessionIds, sessionKey \in Keys :
         Unchanged(RxSetPairing(W, sessionId, sessionKey))
    /\ Unchanged(setUnpairing(W))

\* Each state other than CONFIGURING with something to lose: PAIRING with a
\* record, the pending id and key, the timeout and the HELLO sender.
C25_Witness ==
  /\ rx.state = "PAIRING"
  /\ DOMAIN rx.sessions # {}
  /\ rx.newSessionId # None
  /\ rx.newProtections # None
  /\ rx.stateTimeout # None
  /\ rx.pairingInterval # None

----------------------------------------------------------------------------
(* C26 *)

\* C26: a CONFIGURE protected under the record of its session moves an IDLE
\* receiver to CONFIGURING with a timeout of 30 s (a pending one cancelled),
\* notified once, the records, the transmitters and everything else as they
\* were and no act called; in every other state it changes nothing and
\* neither cancels nor arms a timeout.
C26_Configure ==
  \A f \in FramesOfType({"CONFIGURE"}) :
    Authentic(f) =>
      LET w == PublicBusSend(W, f)
      IN  IF rx.state = "IDLE"
            THEN /\ w.rx = [rx EXCEPT !.state = "CONFIGURING",
                                       !.stateTimeout = Some(30000)]
                 /\ w.tx = tx
                 /\ w.ev = (IF rx.stateTimeout # None
                              THEN <<[k |-> "clearTimeout", who |-> "rx"]>> ELSE <<>>)
                           \o <<[k |-> "setTimeout", who |-> "rx", ms |-> 30000],
                                [k |-> "rx.stateChanged", v |-> "CONFIGURING"]>>
            ELSE Unchanged(w)

\* IDLE with an authenticated CONFIGURE at hand.
C26_Witness ==
  /\ rx.state = "IDLE"
  /\ \E f \in FramesOfType({"CONFIGURE"}) :
       /\ Authentic(f)
       /\ PublicBusSend(W, f).rx.state = "CONFIGURING"

----------------------------------------------------------------------------
(* C27 *)

\* f is an ACT under the record of its session with a sequence number above
\* the stored one
FreshAct(f) ==
  /\ FType(f) = "ACT"
  /\ Authentic(f)
  /\ rx.sessions[FSid(f)].prevSeqNo < FSeq(f)

\* In IDLE and CONFIGURING every such ACT ends in CONFIGURING with the 10 s
\* timeout pending, the timeout that was pending (of 10 s or of 30 s)
\* cancelled before, so that the one timeout left is that of the last ACT;
\* when it fires, the receiver, holding a record, is in IDLE.
C27_ActRearms ==
  rx.state \in {"IDLE", "CONFIGURING"} =>
    \A f \in PublicFrames :
      FreshAct(f) =>
        LET w == PublicBusSend(W, f)
        IN  /\ w.rx.state = "CONFIGURING"
            /\ w.rx.stateTimeout = Some(10000)
            /\ RxTimerEvents(w) =
                 (IF rx.stateTimeout # None
                    THEN <<[k |-> "clearTimeout", who |-> "rx"]>> ELSE <<>>)
                 \o <<[k |-> "setTimeout", who |-> "rx", ms |-> 10000]>>
            /\ LET w2 == RxStateTimeout([w EXCEPT !.ev = <<>>])
               IN  /\ w2.rx.state = "IDLE"
                   /\ w2.rx.stateTimeout = None
                   /\ w2.ev = <<[k |-> "rx.stateChanged", v |-> "IDLE"]>>

----------------------------------------------------------------------------
(* C28 *)

----------------------------------------------------------------------------
(* C29 *)

\* a protected frame whose unencrypted header type was rewritten in transit
Retype(f, type) == [f EXCEPT !.unencrypted.header.type = type]

\* the receiver after the step w has taken no notice of the frame f
Ignored(w, f) ==
  LET w2 == PublicBusSend([w EXCEPT !.ev = <<>>], f)
  IN  w2.rx = w.rx /\ w2.ev = <<>>

\* deprotectFrame under the key of protectFrame returns null for the frame
\* with the rewritten header
C29_RetypedRejected ==
  \A w \in TxActRuns, t \in Transmitters :
    \A j \in 1..Len(PublicSendsBy(w, t)) :
      \A type \in {"UNBIND", "CONFIGURE"} :
        LET f == PublicSendsBy(w, t)[j].f
        IN  deprotectFrame(f.encrypted.algo, Retype(f, type)) = None

\* the receiver takes no notice of the frame with the rewritten header
C29_RetypedIgnored ==
  \A w \in TxActRuns, t \in Transmitters :
    \A j \in 1..Len(PublicSendsBy(w, t)) :
      \A type \in {"UNBIND", "CONFIGURE"} :
        Ignored(w, Retype(PublicSendsBy(w, t)[j].f, type))

\* C29: the unencrypted part is covered by the protection: an ACT that a
\* transmitter sends and whose header type is then rewritten to UNBIND or
\* CONFIGURE does not deprotect under the key it was protected with, and the
\* receiver takes no notice of it.
C29_HeaderAuthenticated == C29_RetypedRejected /\ C29_RetypedIgnored

----------------------------------------------------------------------------
(* C30 *)

\* C30: the id an honoured setPairing() mints has no record, and while the
\* receiver is in PAIRING the pending id has none; so a BIND installs its
\* record under an id that had none, and no step replaces the key of a record
\* or changes the record of another id than the one it is about. (The table
\* is a Map keyed by the id: here a function on the ids.)
C30_MintedIdIsNew ==
  /\ \A w \in RxSetPairingRuns :
       w.rx.state = "PAIRING" => w.rx.newSessionId[1] \notin DOMAIN rx.sessions
  /\ rx.state = "PAIRING" =>
       /\ rx.newSessionId # None
       /\ rx.newSessionId[1] \notin DOMAIN rx.sessions
  /\ \A f \in FramesOfType({"BIND"}) :
       LET w == PublicBusSend(W, f)
       IN  /\ \A id \in DOMAIN rx.sessions :
                id \in DOMAIN w.rx.sessions /\ w.rx.sessions[id] = rx.sessions[id]
           /\ DOMAIN w.rx.sessions # DOMAIN rx.sessions =>
                /\ FSid(f) \notin DOMAIN rx.sessions
                /\ DOMAIN w.rx.sessions = DOMAIN rx.sessions \cup {FSid(f)}
  /\ \A w \in Runs :
       \A id \in DOMAIN rx.sessions \cap DOMAIN w.rx.sessions :
         w.rx.sessions[id].protection = rx.sessions[id].protection

\* PAIRING with a record held and a BIND at hand that installs a second one.
C30_Witness ==
  /\ rx.state = "PAIRING"
  /\ DOMAIN rx.sessions # {}
  /\ \E f \in FramesOfType({"BIND"}) :
       /\ ValidBind(f)
       /\ Cardinality(DOMAIN PublicBusSend(W, f).rx.sessions) = 2

----------------------------------------------------------------------------
(* C31 *)

\* C31: a transmitter in PAIRING that is handed a HELLO whose interfaces
\* leave it none for its BIND ignores the HELLO: key, session id, unbound,
\* state and timeout stay as they are and it sends nothing.
C31_EmptyInterfacesIgnored ==
  \A t \in Transmitters :
    tx[t].state = "PAIRING" =>
      \A f \in PrivateFrames :
        (FType(f) = "HELLO" /\ BindInterfaceTypes(f) = <<>>) =>
          LET w == TxOnPrivateMsg(W, t, f)
          IN  w.tx[t] = tx[t] /\ w.ev = <<>>

----------------------------------------------------------------------------
(* C32 *)

\* the callbacks of the Receiver's host in the step w
RxCallbacks(w) ==
  SelectSeq(w.ev, LAMBDA e : e.k \in {"rx.act", "rx.stateChanged"})

\* as long as no transmitter is paired again after the reset, no act(),
\* setConfiguring() or unpair() of a transmitter makes a callback of the
\* receiver's host run
C32_OldSessionsDeaf ==
  (old # None /\ DOMAIN rx.sessions = {}) =>
    \A w \in TxActRuns \cup TxSetConfiguringRuns \cup TxUnpairRuns :
      RxCallbacks(w) = <<>>

\* C32: after a factory reset the Receiver starts in STARTING without a
\* record and goes on to CONFIGURING; the Receiver it replaced has no timeout
\* and no HELLO interval pending; and the frames of a transmitter paired
\* before the reset make no callback of the receiver's host run.
C32_FactoryReset ==
  /\ \A w \in RxFactoryResetRuns :
       /\ w.rx.state = "STARTING"
       /\ DOMAIN w.rx.sessions = {}
       /\ RxStateTimeout(w).rx.state = "CONFIGURING"
  /\ old # None =>
       /\ old[1].stateTimeout = None
       /\ old[1].pairingInterval = None
  /\ C32_OldSessionsDeaf

----------------------------------------------------------------------------
(* C33 *)

\* The capacities that the ids of the model can exceed. The Receiver itself
\* names no capacity.
Capacities == 1 .. (Cardinality(SessionIds) - 1)

\* the table respects the capacity n: it holds at most n records, and when it
\* holds n, a BIND in PAIRING installs nothing and is not answered
RespectsCapacity(n) ==
  /\ Cardinality(DOMAIN rx.sessions) <= n
  /\ (Cardinality(DOMAIN rx.sessions) = n /\ rx.state = "PAIRING") =>
       \A f \in FramesOfType({"BIND"}) :
         LET w == PublicBusSend(W, f)
         IN  /\ w.rx.sessions = rx.sessions
             /\ w.rx.state = "PAIRING"
             /\ BoundsSent(w) = <<>>

\* C33: there is a capacity N_MAX of at least one record that the session
\* table never exceeds, a BIND received in PAIRING at that capacity installing
\* nothing and sending no BOUND, so that PAIRING ends by its timeout.
C33_TableBounded == \E n \in Capacities : RespectsCapacity(n)

----------------------------------------------------------------------------
(* C34 *)

\* the transmitters whose host is notified pairingChanged(true) in the step w
NotifiedPaired(w) ==
  { t \in Transmitters :
      \E j \in 1..Len(w.ev) :
        /\ w.ev[j].k = "tx.pairingChanged"
        /\ w.ev[j].who = t
        /\ w.ev[j].paired }

\* C34: in a step in which the receiver accepts a BIND, pairingChanged(true)
\* is notified to at most one transmitter, and a transmitter so notified is
\* paired with the session just installed; and no two transmitters are bound
\* to the same session id and key.
C34_OneTransmitterPerWindow ==
  /\ \A w \in GenuineRuns :
       /\ Cardinality(NotifiedPaired(w)) <= 1
       /\ \A t \in NotifiedPaired(w) :
            /\ isPaired(w.tx[t])
            /\ w.tx[t].sessionId[1] \in DOMAIN w.rx.sessions \ DOMAIN rx.sessions
  /\ \A t, u \in Transmitters :
       (t # u /\ isPaired(tx[t]) /\ isPaired(tx[u])) =>
         ~(tx[t].sessionId = tx[u].sessionId /\ tx[t].protection = tx[u].protection)

----------------------------------------------------------------------------
(* C35 *)

\* C35: a transmitter that holds a session id holds a key; act() of a paired
\* transmitter sends one ACT and does not throw; and a HELLO with an empty
\* list of algorithms, received in PAIRING, leaves the transmitter's key,
\* session id and pairing as they were.
C35_KeyWithSession ==
  \A t \in Transmitters :
    /\ tx[t].sessionId # None => tx[t].protection # None
    /\ isPaired(tx[t]) =>
         \A i \in InterfaceType :
           LET w == act(W, t, [interface |-> i])
           IN  /\ ~Threw(w)
               /\ Len(PublicSendsBy(w, t)) = 1
               /\ FType(PublicSendsBy(w, t)[1].f) = "ACT"
    /\ tx[t].state = "PAIRING" =>
         \A f \in PrivateFrames :
           (FType(f) = "HELLO" /\ f.unencrypted.protectionAlgorithms = <<>>) =>
             LET w == TxOnPrivateMsg(W, t, f)
             IN  /\ w.tx[t].protection = tx[t].protection
                 /\ w.tx[t].sessionId = tx[t].sessionId
                 /\ w.tx[t].unbound = tx[t].unbound

----------------------------------------------------------------------------
(* C36 *)

\* the values passed to the pairingChanged of t's host in the step w
PairingNotified(w, t) ==
  SelectSeq(w.ev, LAMBDA e : e.k = "tx.pairingChanged" /\ e.who = t)

\* C36: the value last passed to pairingChanged is isPaired(). Both are false
\* at construction, and in every step: without a notification isPaired() is
\* what it was, and with one the last value notified is isPaired() after the
\* step; so pairingChanged(true) finds the transmitter with a session id and
\* bound, and a paired transmitter that stops being paired is notified false.
C36_HostViewOfPairing ==
  \A w \in GenuineRuns \cup PrivateDeliverRuns, t \in Transmitters :
    LET n == PairingNotified(w, t)
    IN  IF n = <<>>
          THEN isPaired(w.tx[t]) = isPaired(tx[t])
          ELSE n[Len(n)].paired = isPaired(w.tx[t])

----------------------------------------------------------------------------
(* C37 *)

\* the public frames before protection
PlainFrames ==
  { Frame("BIND", s, p, n, 0) :
      s \in SessionIds, p \in ProtectionAlgorithmType, n \in 1..MaxSeq }
  \cup
  { Frame(ty, s, 0, n, i) :
      ty \in {"UNBIND", "CONFIGURE", "ACT"}, s \in SessionIds, n \in 1..MaxSeq,
      i \in InterfaceType }

\* the algorithms with their keys that the stations hold: the transmitters'
\* protection, the records' and the candidates of the pairing window
HeldAlgos ==
  { tx[t].protection[1] : t \in {u \in TxIds : tx[u].protection # None} }
    \cup { rx.sessions[id].protection : id \in DOMAIN rx.sessions }
    \cup (IF rx.newProtections = None THEN {}
           ELSE { rx.newProtections[1][i] : i \in 1..Len(rx.newProtections[1]) })

\* C37: for every algorithm and key a that a station holds and every frame,
\* deprotectFrame under a returns the frame that protectFrame protected under
\* a, unencrypted and encrypted part; and under any b of another algorithm
\* type or another session key, deprotectFrame returns null for that frame.
C37_ProtectRoundTrip ==
  \A a \in HeldAlgos, b \in Algos, f \in PlainFrames :
    /\ deprotectFrame(a, protectFrame(a, f)) = Some(f)
    /\ b # a => deprotectFrame(b, protectFrame(a, f)) = None

\* The receiver holds a record under one key while a transmitter holds
\* another key of the same algorithm type: its frames are at hand, protected
\* by it and to be deprotected under the record.
C37_Witness ==
  \E t \in Transmitters, id \in DOMAIN rx.sessions :
    /\ isPaired(tx[t])
    /\ tx[t].protection # None
    /\ tx[t].protection[1].type = rx.sessions[id].protection.type
    /\ tx[t].protection[1].sessionKey # rx.sessions[id].protection.sessionKey
    /\ tx[t].sessionId[1] \in DOMAIN rx.sessions
    /\ rx.sessions[tx[t].sessionId[1]].protection = tx[t].protection[1]

----------------------------------------------------------------------------
(* C38 *)

\* C38: the receiver holds a pending session id and candidate keys exactly
\* while it is in PAIRING: in every other state both are cleared, whether the
\* window ended by a BIND or by its timeout.
C38_PendingOnlyInPairing ==
  rx.state # "PAIRING" => (rx.newSessionId = None /\ rx.newProtections = None)

----------------------------------------------------------------------------
(* C39 *)

\* The number of timeouts the scheduler holds for one FSM after the events
\* evs, n of them pending before; 2 as soon as it is neither 0 nor 1.
RECURSIVE PendingAfter(_, _)
PendingAfter(n, evs) ==
  IF evs = <<>> THEN n
  ELSE LET m == IF Head(evs).k = "setTimeout" THEN n + 1 ELSE n - 1
       IN  IF m \notin {0, 1} THEN 2 ELSE PendingAfter(m, Tail(evs))

PendingCount(x) == IF x.stateTimeout # None THEN 1 ELSE 0

ArmedIn(evs) == evs # <<>> /\ evs[Len(evs)].k = "setTimeout"

RxWindows == {"PAIRING", "UNPAIRING", "CONFIGURING"}

\* The receiver in a step w: the scheduler holds at most one of its timeouts
\* at every point of the step, the one its handle names; and a window it is
\* in after the step has no timeout pending, or the one this step armed, or,
\* the step having stayed in the window without touching the timer, the one
\* that was pending in the window before.
RxOneTimeout(w, fired) ==
  /\ PendingAfter(IF fired THEN 0 ELSE PendingCount(rx), RxTimerEvents(w))
       = PendingCount(w.rx)
  /\ w.rx.state \in RxWindows =>
       \/ w.rx.stateTimeout = None
       \/ ArmedIn(RxTimerEvents(w))
       \/ /\ ~fired
          /\ rx.state = w.rx.state
          /\ RxTimerEvents(w) = <<>>
          /\ w.rx.stateTimeout = rx.stateTimeout

\* The same for the transmitter t, whose one window is PAIRING.
TxOneTimeout(w, t, fired) ==
  /\ PendingAfter(IF fired THEN 0 ELSE PendingCount(tx[t]), TxTimerEvents(w, t))
       = PendingCount(w.tx[t])
  /\ w.tx[t].state = "PAIRING" =>
       \/ w.tx[t].stateTimeout = None
       \/ ArmedIn(TxTimerEvents(w, t))
       \/ /\ ~fired
          /\ tx[t].state = "PAIRING"
          /\ TxTimerEvents(w, t) = <<>>
          /\ w.tx[t].stateTimeout = tx[t].stateTimeout

\* C39: each FSM has at most one state timeout pending, and the timeout
\* pending in a PAIRING, UNPAIRING or CONFIGURING window was armed by the last
\* entry or re-arm of that window: every step into a window cancels the
\* timeout an earlier transition (BOUND or act() on the transmitter, UNBIND on
\* the receiver) left pending, so none cuts a later window short.
C39_OneFreshTimeout ==
  /\ \A w \in AnyRuns \ RxTimeoutRuns : RxOneTimeout(w, FALSE)
  /\ \A w \in RxTimeoutRuns : RxOneTimeout(w, TRUE)
  /\ \A t \in TxIds :
       /\ \A w \in AnyRuns \ { TxStateTimeout(W, t) } : TxOneTimeout(w, t, FALSE)
       /\ tx[t].stateTimeout # None => TxOneTimeout(TxStateTimeout(W, t), t, TRUE)

\* Receiver and transmitter both in IDLE with the timeout of the window they
\* left still pending, and a step that opens the receiver's CONFIGURING
\* window from there.
C39_Witness ==
  /\ rx.state = "IDLE"
  /\ rx.stateTimeout # None
  /\ \E t \in Transmitters : tx[t].state = "IDLE" /\ tx[t].stateTimeout # None
  /\ \E w \in Runs :
       /\ w.rx.state = "CONFIGURING"
       /\ RxTimerEvents(w) = << [k |-> "clearTimeout", who |-> "rx"],
                                [k |-> "setTimeout", who |-> "rx", ms |-> 30000] >>

----------------------------------------------------------------------------
(* C40 *)

Uncommissioned == DOMAIN rx.sessions = {} /\ rx.state # "CONFIGURING"

\* Without a record and outside CONFIGURING the receiver is in STARTING,
\* PAIRING, UNPAIRING or IDLE with a timeout pending (in IDLE the one the
\* UNBIND that deleted the last record left), whose callback moves to
\* CONFIGURING; no other step moves it anywhere but to CONFIGURING; and in
\* CONFIGURING without a record setPairing(), whatever the PRNG draws, opens
\* the PAIRING window.
C40_TimeoutPending ==
  /\ Uncommissioned =>
       /\ rx.state \in {"STARTING", "IDLE", "PAIRING", "UNPAIRING"}
       /\ rx.stateTimeout # None
       /\ RxStateTimeout(W).rx.state = "CONFIGURING"
       /\ \A w \in Runs : w.rx.state \in {rx.state, "CONFIGURING"}
  /\ (DOMAIN rx.sessions = {} /\ rx.state = "CONFIGURING") =>
       /\ RxSetPairingRuns # {}
       /\ \A w \in RxSetPairingRuns :
            /\ w.rx.state = "PAIRING"
            /\ w.rx.newSessionId # None
            /\ w.rx.pairingInterval # None

\* C40: a receiver without a record does not stay in STARTING, IDLE, PAIRING
\* or UNPAIRING forever: its pending timeout, fired fairly, takes it to
\* CONFIGURING, where setPairing() is honoured.
C40_Recommissionable ==
  /\ []C40_TimeoutPending
  /\ Uncommissioned ~> (rx.state = "CONFIGURING")

\* IDLE after the UNBIND of the only record: no frame is accepted any more and
\* the timeout of the UNPAIRING window is what is left to fire.
C40_Witness ==
  /\ rx.state = "IDLE"
  /\ DOMAIN rx.sessions = {}
  /\ rx.stateTimeout = Some(10000)
  /\ \A f \in PublicFrames : PublicBusSend(W, f).rx = rx

====
